---- MODULE Spec2Model ----
(***************************************************************************)
(* Model of src/mcp.py: MCPManager (registry of server specs, tracked      *)
(* child processes, tool catalog) and the tool-subsystem part of           *)
(* LMStudioMCPChatbot (enable_mcp / disable_mcp / get_mcp_status).         *)
(*                                                                         *)
(* Python dicts keep insertion order, so active_connections and            *)
(* available_tools are sequences of [key, val] entries.  A child process   *)
(* is a record in procs; its position is its handle.  What a child does    *)
(* (spawn error, replies on its stdout, exit) is the environment's choice. *)
(***************************************************************************)
EXTENDS Integers, Sequences, FiniteSets, TLC

VARIABLES servers, active_connections, available_tools, procs, mcp_enabled, last,
          conversation_history, stream, threads, pipes, files

vars == <<servers, active_connections, available_tools, procs, mcp_enabled, last,
          conversation_history, stream, threads, pipes, files>>

\* the tool subsystem
mcpvars == <<servers, active_connections, available_tools, procs, mcp_enabled>>
\* the conversation: the history, the generator returned by stream_chat and
\* the files written by save_conversation
chatvars == <<conversation_history, stream, files>>
\* request threads of the web server inside a manager method, and the
\* requests written to each child's stdin whose reply has not been read
racevars == <<threads, pipes>>

(* ------------------------------ bounds -------------------------------- *)
\* processes spawned in one behaviour
MaxSpawn == 2
\* longest tools array a child advertises
MaxTools == 2
\* turns kept in the conversation history
MaxTurns == 4

NoPid == 0

\* names registered by add_default_servers
DefaultServers == {"filesystem", "sqlite", "brave-search", "github"}
\* names callers pass to start_server / stop_server / call_tool;
\* "custom" is not registered until add_server registers it
InputNames == {"filesystem", "custom"}
\* names callers pass to add_server; a name is registered once (a ServerSpec
\* is not replaced once registered)
AddNames == {"custom"}
\* a ServerSpec is modelled by whether its command can be launched
Commands == {"valid", "invalid"}
\* servers=None default of enable_mcp
EnableDefault == <<"filesystem", "sqlite">>
\* the server lists callers pass to enable_mcp
EnableRequests == {<<"custom">>, <<"filesystem", "custom">>}

ToolNames == <<"read_file", "write_file", "list_directory">>
\* the tools arrays a child may advertise in its tools/list reply
ToolLists == {[i \in 1..k |-> [name |-> ToolNames[i]]] : k \in 0..MaxTools}

(* ------------------------ Python dict semantics ------------------------ *)
DictHas(d, k) == \E i \in 1..Len(d) : d[i].key = k
DictGet(d, k) == d[CHOOSE i \in 1..Len(d) : d[i].key = k].val
\* d[k] = v: an existing key keeps its position, a new key goes last
DictSet(d, k, v) ==
    IF DictHas(d, k)
    THEN [i \in 1..Len(d) |-> IF d[i].key = k THEN [key |-> k, val |-> v] ELSE d[i]]
    ELSE Append(d, [key |-> k, val |-> v])
\* del d[k]
DictDel(d, k) == SelectSeq(d, LAMBDA e : e.key # k)

(* --------------------------- child processes --------------------------- *)
\* process.poll() is None
IsAlive(ps, p) == ps[p].state # "dead"
\* process.terminate(): SIGTERM to a process that has not exited; the child
\* exits later, or never if it ignores the signal
terminate(ps, p) ==
    IF ps[p].state = "alive" THEN [ps EXCEPT ![p].state = "terminating"] ELSE ps

\* what the environment decides for one start_server call: whether Popen
\* raises, and what the child answers to initialize and to tools/list
\*   broken_pipe  the write to stdin raises
\*   none         readline returns the empty string
\*   malformed    json.loads raises on the line
\*   no_tools     a JSON object without result.tools
\*   ok           a well-formed reply (tools is the advertised array)
Outcomes ==
    {[spawn |-> "raise", init |-> "unsent", list |-> "unsent", tools |-> <<>>]}
    \cup {[spawn |-> "ok", init |-> i, list |-> "unsent", tools |-> <<>>] :
            i \in {"broken_pipe", "none", "malformed"}}
    \cup {[spawn |-> "ok", init |-> "ok", list |-> l, tools |-> <<>>] :
            l \in {"broken_pipe", "none", "malformed", "no_tools"}}
    \cup {[spawn |-> "ok", init |-> "ok", list |-> "ok", tools |-> t] :
            t \in ToolLists}

\* the outcomes enable_mcp's starts draw from: one for each effect a start
\* has on the manager (no process, a process and no catalog entry, a process
\* and a catalog entry)
EnableOutcomes ==
    {o \in Outcomes : /\ o.init \in {"unsent", "none", "ok"}
                      /\ o.list \in {"unsent", "malformed", "ok"}
                      /\ Len(o.tools) <= 1}

\* what the child answers to one tools/call request
CallReplies == {"broken_pipe", "none", "malformed", "ok"}

(* ------------------------------ MCPManager ----------------------------- *)
\* self.servers[server.name] = server
add_server(svs, name, cmd) ==
    [n \in DOMAIN svs \cup {name} |-> IF n = name THEN cmd ELSE svs[n]]

\* the manager's mutable state threaded through its methods
Mgr == [ac |-> active_connections, at |-> available_tools, procs |-> procs]

\* a _get_tools that extends the entry it finds
get_tools_merges(m, server_name, out) ==
    IF out.list = "ok"
    THEN [m EXCEPT !.at = DictSet(@, server_name,
                     (IF DictHas(m.at, server_name) THEN DictGet(m.at, server_name)
                      ELSE <<>>) \o out.tools)]
    ELSE m

get_tools(m, server_name, out) ==
    IF out.list = "ok"
    THEN [m EXCEPT !.at = DictSet(@, server_name, out.tools)]
    ELSE m

initialize_server(m, server_name, out) ==
    IF out.init = "ok" THEN get_tools(m, server_name, out) ELSE m

\* what _get_tools does on the child's pipes and on the catalog, in order:
\*   "w:tools/list"  the request is written to stdin (the write may raise)
\*   "r:tools/list"  a line is read from stdout
\*   "set"           self.available_tools[server_name] = tools
get_tools_io(out) ==
    IF out.list = "broken_pipe" THEN <<"w:tools/list">>
    ELSE IF out.list \in {"none", "malformed", "no_tools"}
    THEN <<"w:tools/list", "r:tools/list">>
    ELSE <<"w:tools/list", "r:tools/list", "set">>

\* an _initialize_server that asks for the tools whatever it read
initialize_server_io_eager(out) ==
    IF out.init = "broken_pipe" THEN <<"w:initialize">>
    ELSE <<"w:initialize", "r:initialize">> \o get_tools_io(out)

\* what _initialize_server does on the child's pipes, in order: _get_tools is
\* called inside "if response:", after json.loads
initialize_server_io(out) ==
    IF out.init = "broken_pipe" THEN <<"w:initialize">>
    ELSE IF out.init \in {"none", "malformed"} THEN <<"w:initialize", "r:initialize">>
    ELSE <<"w:initialize", "r:initialize">> \o get_tools_io(out)

\* subprocess.Popen(cmd, ...) raises
PopenRaises(server_name, out) ==
    out.spawn = "raise" \/ servers[server_name] = "invalid"

\* a start_server that reports a failed handshake as a failed start
start_server_checks_handshake(m, server_name, out) ==
    IF server_name \notin DOMAIN servers
    THEN [m |-> m, name |-> server_name, ret |-> FALSE, pid |-> NoPid,
          init |-> "unsent", list |-> "unsent"]
    ELSE IF PopenRaises(server_name, out)
    THEN [m |-> m, name |-> server_name, ret |-> FALSE, pid |-> NoPid,
          init |-> "unsent", list |-> "unsent"]
    ELSE LET pid == Len(m.procs) + 1
             m1 == [m EXCEPT
                      !.procs = Append(@, [name |-> server_name, state |-> "alive"]),
                      !.ac = DictSet(@, server_name, pid)]
         IN  [m |-> initialize_server(m1, server_name, out),
              name |-> server_name, ret |-> out.list = "ok", pid |-> pid,
              init |-> out.init,
              list |-> IF out.init = "ok" THEN out.list ELSE "unsent"]

\* a start_server that forgets the handle it tracked when Popen raises
start_server_drops_entry(m, server_name, out) ==
    IF server_name \notin DOMAIN servers
    THEN [m |-> m, name |-> server_name, ret |-> FALSE, pid |-> NoPid,
          init |-> "unsent", list |-> "unsent"]
    ELSE IF PopenRaises(server_name, out)
    THEN [m |-> [m EXCEPT !.ac = DictDel(@, server_name)],
          name |-> server_name, ret |-> FALSE, pid |-> NoPid,
          init |-> "unsent", list |-> "unsent"]
    ELSE LET pid == Len(m.procs) + 1
             m1 == [m EXCEPT
                      !.procs = Append(@, [name |-> server_name, state |-> "alive"]),
                      !.ac = DictSet(@, server_name, pid)]
         IN  [m |-> initialize_server(m1, server_name, out),
              name |-> server_name, ret |-> TRUE, pid |-> pid,
              init |-> out.init,
              list |-> IF out.init = "ok" THEN out.list ELSE "unsent"]

\* start_server without its lookup in self.servers: an unregistered name is
\* launched like a registered one
start_server_unchecked(m, server_name, out) ==
    IF out.spawn = "raise"
       \/ (server_name \in DOMAIN servers /\ servers[server_name] = "invalid")
    THEN [m |-> m, name |-> server_name, ret |-> FALSE, pid |-> NoPid,
          init |-> "unsent", list |-> "unsent"]
    ELSE LET pid == Len(m.procs) + 1
             m1 == [m EXCEPT
                      !.procs = Append(@, [name |-> server_name, state |-> "alive"]),
                      !.ac = DictSet(@, server_name, pid)]
         IN  [m |-> initialize_server(m1, server_name, out),
              name |-> server_name, ret |-> TRUE, pid |-> pid,
              init |-> out.init,
              list |-> IF out.init = "ok" THEN out.list ELSE "unsent"]

start_server(m, server_name, out) ==
    IF server_name \notin DOMAIN servers
    THEN [m |-> m, name |-> server_name, ret |-> FALSE, pid |-> NoPid,
          init |-> "unsent", list |-> "unsent"]
    ELSE IF PopenRaises(server_name, out)
    THEN [m |-> m, name |-> server_name, ret |-> FALSE, pid |-> NoPid,
          init |-> "unsent", list |-> "unsent"]
    ELSE LET pid == Len(m.procs) + 1
             m1 == [m EXCEPT
                      !.procs = Append(@, [name |-> server_name, state |-> "alive"]),
                      !.ac = DictSet(@, server_name, pid)]
         IN  [m |-> initialize_server(m1, server_name, out),
              name |-> server_name, ret |-> TRUE, pid |-> pid,
              init |-> out.init,
              list |-> IF out.init = "ok" THEN out.list ELSE "unsent"]

\* a stop_server that leaves the entry of a process that has already exited
stop_server_live_only(m, server_name) ==
    IF DictHas(m.ac, server_name) /\ m.procs[DictGet(m.ac, server_name)].state = "alive"
    THEN [m EXCEPT !.procs = terminate(@, DictGet(m.ac, server_name)),
                   !.ac = DictDel(@, server_name)]
    ELSE m

\* stop_server without its del: the handle stays in active_connections
stop_server_keeps_entry(m, server_name) ==
    IF DictHas(m.ac, server_name)
    THEN [m EXCEPT !.procs = terminate(@, DictGet(m.ac, server_name))]
    ELSE m

stop_server(m, server_name) ==
    IF DictHas(m.ac, server_name)
    THEN [m EXCEPT !.procs = terminate(@, DictGet(m.ac, server_name)),
                   !.ac = DictDel(@, server_name)]
    ELSE m

RECURSIVE StopEach(_, _)
StopEach(m, names) ==
    IF names = <<>> THEN m
    ELSE StopEach(stop_server(m, Head(names)), Tail(names))

\* a stop_all_servers that stops the first tracked server only
stop_all_servers_first_only(m) ==
    IF m.ac = <<>> THEN m ELSE stop_server(m, m.ac[1].key)

stop_all_servers(m) ==
    StopEach(m, [i \in 1..Len(m.ac) |-> m.ac[i].key])

\* stop_server when process.terminate() raises for the processes in bad
\* (the signal cannot be delivered): the exception leaves stop_server before
\* the del
stop_server_exc(m, server_name, bad) ==
    IF DictHas(m.ac, server_name) /\ DictGet(m.ac, server_name) \in bad
    THEN [m |-> m, raised |-> TRUE]
    ELSE [m |-> stop_server(m, server_name), raised |-> FALSE]

\* the loop of stop_all_servers: an exception of stop_server ends it
RECURSIVE StopEachExc(_, _, _)
StopEachExc(m, names, bad) ==
    IF names = <<>> THEN [m |-> m, raised |-> FALSE]
    ELSE LET r == stop_server_exc(m, Head(names), bad)
         IN  IF r.raised THEN r ELSE StopEachExc(r.m, Tail(names), bad)

stop_all_servers_exc(m, bad) ==
    StopEachExc(m, [i \in 1..Len(m.ac) |-> m.ac[i].key], bad)

\* get_server_status without process.poll(): a tracked name is "running"
get_server_status_unpolled(m) ==
    [name \in DOMAIN servers |->
        IF DictHas(m.ac, name) THEN "running" ELSE "not_started"]

get_server_status(m) ==
    [name \in DOMAIN servers |->
        IF DictHas(m.ac, name)
        THEN IF IsAlive(m.procs, DictGet(m.ac, name)) THEN "running" ELSE "stopped"
        ELSE "not_started"]

RECURSIVE get_available_tools_list(_)
get_available_tools_list(at) ==
    IF at = <<>> THEN <<>>
    ELSE [i \in 1..Len(Head(at).val) |->
             [name |-> Head(at).val[i].name, server |-> Head(at).key]]
         \o get_available_tools_list(Tail(at))

\* the result of call_tool: how it ends (return / raise) and with what, the
\* requests it wrote to the child's stdin, the lines it read from its stdout
call_tool(m, server_name, reply) ==
    IF ~DictHas(m.ac, server_name)
    THEN [outcome |-> "raise", value |-> "not_connected", sent |-> <<>>, read |-> <<>>]
    ELSE IF reply = "broken_pipe"
    THEN [outcome |-> "raise", value |-> "BrokenPipeError", sent |-> <<>>, read |-> <<>>]
    ELSE IF reply = "none"
    THEN [outcome |-> "return", value |-> "None", sent |-> <<"tools/call">>, read |-> <<"none">>]
    ELSE IF reply = "malformed"
    THEN [outcome |-> "raise", value |-> "JSONDecodeError", sent |-> <<"tools/call">>,
          read |-> <<"malformed">>]
    ELSE [outcome |-> "return", value |-> "data", sent |-> <<"tools/call">>, read |-> <<"ok">>]

(* -------------------------- LMStudioMCPChatbot ------------------------- *)
\* the loop of enable_mcp: one start_server per requested name, in order;
\* the result carries the manager state and every start's result
RECURSIVE StartEach(_, _, _)
StartEach(acc, names, outs) ==
    IF names = <<>> THEN acc
    ELSE LET r == start_server(acc.m, Head(names), Head(outs))
         IN  StartEach([m |-> r.m,
                        results |-> Append(acc.results, [x \in DOMAIN r \ {"m"} |-> r[x]])],
                       Tail(names), Tail(outs))

enable_mcp(m, names, outs) == StartEach([m |-> m, results |-> <<>>], names, outs)

get_mcp_status ==
    [enabled |-> mcp_enabled,
     servers |-> get_server_status(Mgr),
     tools |-> get_available_tools_list(available_tools)]

(* ------------------------------ conversation -------------------------- *)
\* the model-call collaborator, as one call sees it:
\*   model_name  the model_name argument ("" when the caller passes none)
\*   listing     client.models.list(): "ok", "empty" (no model) or "error"
\*   create      client.chat.completions.create(): "ok" or "raise"
\*   chunks      the delta.content of the chunks of the streamed completion;
\*               the completed message of the same request is their
\*               concatenation
\*   fail_at     the chunk at which iterating the stream raises (0: never)
ChunkLists == {<<>>, <<"a", "", "b">>}

Stubs ==
    {[model_name |-> "", listing |-> l, create |-> "ok", chunks |-> <<>>, fail_at |-> 0] :
        l \in {"empty", "error"}}
    \cup {[model_name |-> n, listing |-> "ok", create |-> "raise", chunks |-> <<>>,
           fail_at |-> 0] : n \in {"", "m1"}}
    \cup {[model_name |-> n, listing |-> "ok", create |-> "ok", chunks |-> c, fail_at |-> 0] :
            n \in {"", "m1"}, c \in ChunkLists}
    \cup {[model_name |-> "m1", listing |-> "ok", create |-> "ok",
           chunks |-> <<"a", "", "b">>, fail_at |-> k] : k \in 1..3}

\* the text the user sends
Messages == {"hi"}

RECURSIVE Concat(_)
Concat(ss) == IF ss = <<>> THEN "" ELSE Head(ss) \o Concat(Tail(ss))

Turn(role, content) == [role |-> role, content |-> content]

\* get_available_models followed by the test of chat / stream_chat: the
\* exception raised before the completion is requested, or "" when a model
\* is resolved
ResolveModel(stub) ==
    IF stub.model_name = "" /\ stub.listing \in {"empty", "error"}
    THEN "No models available in LM Studio"
    ELSE ""

\* the exception raised by the try block of chat up to the completion call
CompletionError(stub) ==
    IF ResolveModel(stub) # "" THEN ResolveModel(stub)
    ELSE IF stub.create = "raise" THEN "create failed"
    ELSE ""

\* a chat that commits the error text as an assistant turn
chat_commits_error(history, message, stub) ==
    LET h1 == Append(history, Turn("user", message))
        text == IF CompletionError(stub) # "" THEN "Error: " \o CompletionError(stub)
                ELSE Concat(stub.chunks)
    IN  [history |-> Append(h1, Turn("assistant", text)), ret |-> text]

\* chat(message, model_name): the history it leaves and the text it returns
chat(history, message, stub) ==
    LET h1 == Append(history, Turn("user", message))
    IN  IF CompletionError(stub) # ""
        THEN [history |-> h1, ret |-> "Error: " \o CompletionError(stub)]
        ELSE [history |-> Append(h1, Turn("assistant", Concat(stub.chunks))),
              ret |-> Concat(stub.chunks)]

\* the generator object returned by stream_chat:
\*   pc       "none" (no generator), "created" (body not entered), "yielded"
\*            (suspended at a yield), "done" (exhausted), "closed" (abandoned)
\*   idx      chunks of the stream consumed so far
\*   full     the local variable full
\*   yielded  the fragments the consumer received
\*   h0       the history when the body was entered
\*   exc      whether the except clause of the body has run
NoStream ==
    [pc |-> "none", message |-> "", stub |-> [model_name |-> "", listing |-> "ok",
     create |-> "ok", chunks |-> <<>>, fail_at |-> 0],
     idx |-> 0, full |-> "", yielded |-> <<>>, h0 |-> <<>>, exc |-> FALSE]

\* the for loop of stream_chat from chunk idx+1 on, up to its next yield or
\* its end: the generator and the history afterwards
RECURSIVE StreamLoop(_, _)
\* a loop that keeps only the latest fragment in full
StreamLoop_overwrites_full(g, history) ==
    IF g.stub.fail_at = g.idx + 1
    THEN [g |-> [g EXCEPT !.pc = "yielded", !.exc = TRUE,
                          !.yielded = Append(@, "Error: stream failed")],
          history |-> history]
    ELSE IF g.idx = Len(g.stub.chunks)
    THEN [g |-> [g EXCEPT !.pc = "done"],
          history |-> Append(history, Turn("assistant", g.full))]
    ELSE LET delta == g.stub.chunks[g.idx + 1]
             g1 == [g EXCEPT !.idx = @ + 1]
         IN  IF delta # ""
             THEN [g |-> [g1 EXCEPT !.pc = "yielded", !.full = delta,
                                    !.yielded = Append(@, delta)],
                   history |-> history]
             ELSE StreamLoop(g1, history)

StreamLoop(g, history) ==
    IF g.stub.fail_at = g.idx + 1
    THEN [g |-> [g EXCEPT !.pc = "yielded", !.exc = TRUE,
                          !.yielded = Append(@, "Error: stream failed")],
          history |-> history]
    ELSE IF g.idx = Len(g.stub.chunks)
    THEN [g |-> [g EXCEPT !.pc = "done"],
          history |-> Append(history, Turn("assistant", g.full))]
    ELSE LET delta == g.stub.chunks[g.idx + 1]
             g1 == [g EXCEPT !.idx = @ + 1]
         IN  IF delta # ""
             THEN [g |-> [g1 EXCEPT !.pc = "yielded", !.full = @ \o delta,
                                    !.yielded = Append(@, delta)],
                   history |-> history]
             ELSE StreamLoop(g1, history)

\* a generator that appends the user turn only once the model has answered
stream_next_resolves_first(g, history) ==
    IF g.pc = "created"
    THEN LET h1 == Append(history, Turn("user", g.message))
             g1 == [g EXCEPT !.h0 = history]
         IN  IF CompletionError(g.stub) # ""
             THEN [g |-> [g1 EXCEPT !.pc = "yielded", !.exc = TRUE,
                          !.yielded = Append(@, "Error: " \o CompletionError(g.stub))],
                   history |-> history]
             ELSE StreamLoop(g1, h1)
    ELSE IF g.pc = "yielded" /\ g.exc
    THEN [g |-> [g EXCEPT !.pc = "done"], history |-> history]
    ELSE IF g.pc = "yielded" THEN StreamLoop(g, history)
    ELSE [g |-> g, history |-> history]

\* a generator that commits what it has accumulated when the stream fails
stream_next_commits_partial(g, history) ==
    IF g.pc = "created"
    THEN LET h1 == Append(history, Turn("user", g.message))
             g1 == [g EXCEPT !.h0 = history]
         IN  IF CompletionError(g.stub) # ""
             THEN [g |-> [g1 EXCEPT !.pc = "yielded", !.exc = TRUE,
                          !.yielded = Append(@, "Error: " \o CompletionError(g.stub))],
                   history |-> h1]
             ELSE StreamLoop(g1, h1)
    ELSE IF g.pc = "yielded" /\ g.exc
    THEN [g |-> [g EXCEPT !.pc = "done"],
          history |-> Append(history, Turn("assistant", g.full))]
    ELSE IF g.pc = "yielded" THEN StreamLoop(g, history)
    ELSE [g |-> g, history |-> history]

\* next(generator)
stream_next(g, history) ==
    IF g.pc = "created"
    THEN LET h1 == Append(history, Turn("user", g.message))
             g1 == [g EXCEPT !.h0 = history]
         IN  IF CompletionError(g.stub) # ""
             THEN [g |-> [g1 EXCEPT !.pc = "yielded", !.exc = TRUE,
                          !.yielded = Append(@, "Error: " \o CompletionError(g.stub))],
                   history |-> h1]
             ELSE StreamLoop(g1, h1)
    ELSE IF g.pc = "yielded" /\ g.exc
    THEN [g |-> [g EXCEPT !.pc = "done"], history |-> history]
    ELSE IF g.pc = "yielded" THEN StreamLoop(g, history)
    ELSE [g |-> g, history |-> history]

clear_conversation == <<>>

\* the prompt the command-line client gives to add_system_prompt
Prompts == {"You are a helpful AI assistant with access to various tools via MCP."}

\* add_system_prompt(prompt): the text of the system turn is content followed
\* by mcp_tools_info, which holds one line (name, server) per tool of
\* get_available_tools_list() when MCP is enabled and is empty otherwise
add_system_prompt(history, prompt, enabled, at) ==
    LET tools == IF enabled THEN get_available_tools_list(at) ELSE <<>>
    IN  Append(history, [role |-> "system", content |-> prompt, mcp_tools_info |-> tools])

\* the file names save_conversation and load_conversation are given
FileNames == {"chat.json"}

\* a name with no file behind it
NoFile == [exists |-> FALSE, text |-> <<>>]

\* json.dump of the history: an array of objects, each the key/value pairs of
\* one turn in insertion order
json_dump(history) ==
    [i \in 1..Len(history) |->
        <<<<"role", history[i].role>>, <<"content", history[i].content>>>>]

\* json.load of such an array: a list of dicts
json_load(text) ==
    [i \in 1..Len(text) |-> [role |-> text[i][1][2], content |-> text[i][2][2]]]

\* save_conversation(filename): open(filename, "w") and json.dump
save_conversation(fs, filename, history) ==
    [fs EXCEPT ![filename] = [exists |-> TRUE, text |-> json_dump(history)]]

\* load_conversation(filename): self.conversation_history = json.load(fp);
\* open raises FileNotFoundError when there is no such file
load_conversation(fs, filename, history) ==
    IF fs[filename].exists
    THEN [history |-> json_load(fs[filename].text), outcome |-> "return"]
    ELSE [history |-> history, outcome |-> "raise"]

\* the consumer drops the generator: GeneratorExit is raised at the yield and
\* is not an Exception, so nothing after the yield runs
stream_close(g) == [g EXCEPT !.pc = "closed"]

(* ------------------------------ request threads ----------------------- *)
\* the threads of the web server that serve /api/mcp/enable and
\* /api/mcp/disable at the same time
Threads == {1, 2}

\* the server the concurrent requests name
RaceNames == {"filesystem"}

NoReq == [tid |-> 0, method |-> "none"]

\* a thread's position in start_server or stop_server and its locals:
\*   p    the process its Popen returned
\*   h    the handle it read from active_connections
\*   got  the request whose reply its last readline returned
IdleThread ==
    [op |-> "idle", pc |-> "idle", name |-> "", p |-> NoPid, h |-> NoPid, got |-> NoReq]

\* the tools array process p advertises
ToolsOfProcess(p) == <<[name |-> ToolNames[p]]>>

(* ------------------------------- actions ------------------------------- *)
\* last: the latest call on the manager or the chatbot, as its caller saw it:
\*   names    the server names passed
\*   results  one entry for each start_server the call made
\*   call     the result of call_tool
\*   status   what get_server_status reported for the server when call_tool
\*            was called
NoCall == [outcome |-> "none", value |-> "none", sent |-> <<>>, read |-> <<>>]

StatusOf(m, name) ==
    IF name \in DOMAIN servers THEN get_server_status(m)[name] ELSE "unknown"

Last(op, names, results, call) ==
    [op |-> op, names |-> names, results |-> results, call |-> call,
     status |-> IF op = "call_tool" THEN StatusOf(Mgr, names[1]) ELSE "unread"]

SetMgr(m) ==
    /\ active_connections' = m.ac
    /\ available_tools' = m.at
    /\ procs' = m.procs

Init ==
    /\ servers = [n \in DefaultServers |-> "valid"]
    /\ active_connections = <<>>
    /\ available_tools = <<>>
    /\ procs = <<>>
    /\ mcp_enabled = FALSE
    /\ last = Last("init", <<>>, <<>>, NoCall)
    /\ conversation_history = <<>>
    /\ stream = NoStream
    /\ threads = [t \in Threads |-> IdleThread]
    /\ pipes = <<>>
    /\ files = [f \in FileNames |-> NoFile]

AddServer ==
    \E name \in AddNames \ DOMAIN servers, cmd \in Commands :
       /\ servers' = add_server(servers, name, cmd)
       /\ last' = Last("add_server", <<>>, <<>>, NoCall)
       /\ UNCHANGED <<active_connections, available_tools, procs, mcp_enabled>>
       /\ UNCHANGED chatvars
       /\ UNCHANGED racevars

StartServerCall(name, out) ==
    LET r == start_server(Mgr, name, out)
    IN  /\ Len(r.m.procs) <= MaxSpawn
        /\ SetMgr(r.m)
        /\ last' = Last("start_server", <<name>>,
                        <<[x \in DOMAIN r \ {"m"} |-> r[x]]>>, NoCall)
        /\ UNCHANGED <<servers, mcp_enabled>>
        /\ UNCHANGED chatvars
        /\ UNCHANGED racevars

StartServer == \E name \in InputNames, out \in Outcomes : StartServerCall(name, out)

StopServerCall(name) ==
    /\ SetMgr(stop_server(Mgr, name))
    /\ last' = Last("stop_server", <<name>>, <<>>, NoCall)
    /\ UNCHANGED <<servers, mcp_enabled>>
    /\ UNCHANGED chatvars
    /\ UNCHANGED racevars

StopServer == \E name \in InputNames : StopServerCall(name)

StopAllServers ==
    /\ SetMgr(stop_all_servers(Mgr))
    /\ last' = Last("stop_all_servers", <<>>, <<>>, NoCall)
    /\ UNCHANGED <<servers, mcp_enabled>>
    /\ UNCHANGED chatvars
    /\ UNCHANGED racevars

\* stop_all_servers while terminate() raises for the processes in bad
StopAllServersExcCall(bad) ==
    LET r == stop_all_servers_exc(Mgr, bad)
    IN  /\ SetMgr(r.m)
        /\ last' = Last("stop_all_servers", <<>>, <<>>,
                        [outcome |-> IF r.raised THEN "raise" ELSE "return",
                         value |-> IF r.raised THEN "terminate" ELSE "None",
                         sent |-> <<>>, read |-> <<>>])
        /\ UNCHANGED <<servers, mcp_enabled>>
        /\ UNCHANGED chatvars
        /\ UNCHANGED racevars

StopAllServersExc == \E bad \in SUBSET (1..Len(procs)) : StopAllServersExcCall(bad)

CallTool ==
    \E name \in InputNames, reply \in CallReplies :
       /\ last' = Last("call_tool", <<name>>, <<>>, call_tool(Mgr, name, reply))
       /\ UNCHANGED <<servers, active_connections, available_tools, procs, mcp_enabled>>
       /\ UNCHANGED chatvars
       /\ UNCHANGED racevars

EnableMcp ==
    \E req \in EnableRequests \cup {EnableDefault} :
       \E outs \in [1..Len(req) -> EnableOutcomes] :
          LET r == enable_mcp(Mgr, req, outs)
          IN  /\ Len(r.m.procs) <= MaxSpawn
              /\ SetMgr(r.m)
              /\ mcp_enabled' = TRUE
              /\ last' = Last("enable_mcp", req,
                               [i \in 1..Len(req) |->
                                   [name |-> r.results[i].name,
                                    pid |-> r.results[i].pid]],
                               NoCall)
              /\ UNCHANGED servers
              /\ UNCHANGED chatvars
              /\ UNCHANGED racevars

\* bot.chat(message, model_name)
ChatCall(message, stub) ==
    LET r == chat(conversation_history, message, stub)
    IN  /\ Len(r.history) <= MaxTurns
        /\ conversation_history' = r.history
        /\ last' = Last("chat", <<message>>, <<stub>>,
                        [outcome |-> "return", value |-> r.ret,
                         sent |-> <<>>, read |-> <<>>])
        /\ UNCHANGED stream
        /\ UNCHANGED mcpvars
        /\ UNCHANGED racevars
        /\ UNCHANGED files

Chat == \E message \in Messages, stub \in Stubs : ChatCall(message, stub)

\* bot.stream_chat(message, model_name): a generator function, so the call
\* runs none of the body
StreamChat ==
    \E message \in Messages, stub \in Stubs :
        /\ stream.pc \in {"none", "done", "closed"}
        /\ stream' = [NoStream EXCEPT !.pc = "created", !.message = message,
                                      !.stub = stub]
        /\ last' = Last("stream_chat", <<message>>, <<>>, NoCall)
        /\ UNCHANGED conversation_history
        /\ UNCHANGED mcpvars
        /\ UNCHANGED racevars
        /\ UNCHANGED files

\* the consumer asks the generator for its next fragment
StreamNext ==
    LET r == stream_next(stream, conversation_history)
    IN  /\ stream.pc \in {"created", "yielded"}
        /\ Len(r.history) <= MaxTurns
        /\ stream' = r.g
        /\ conversation_history' = r.history
        /\ last' = Last("next", <<>>, <<>>, NoCall)
        /\ UNCHANGED mcpvars
        /\ UNCHANGED racevars
        /\ UNCHANGED files

\* the consumer abandons the generator at a yield (the client of
\* /api/chat/stream disconnects)
StreamClose ==
    /\ stream.pc = "yielded"
    /\ stream' = stream_close(stream)
    /\ last' = Last("close", <<>>, <<>>, NoCall)
    /\ UNCHANGED conversation_history
    /\ UNCHANGED mcpvars
    /\ UNCHANGED racevars
    /\ UNCHANGED files

ClearConversation ==
    /\ conversation_history' = clear_conversation
    /\ last' = Last("clear_conversation", <<>>, <<>>, NoCall)
    /\ UNCHANGED stream
    /\ UNCHANGED mcpvars
    /\ UNCHANGED racevars
    /\ UNCHANGED files

AddSystemPrompt ==
    \E prompt \in Prompts :
       /\ Len(conversation_history) < MaxTurns
       /\ conversation_history' =
             add_system_prompt(conversation_history, prompt, mcp_enabled, available_tools)
       /\ last' = Last("add_system_prompt", <<>>, <<>>, NoCall)
       /\ UNCHANGED <<stream, files>>
       /\ UNCHANGED mcpvars
       /\ UNCHANGED racevars

SaveConversation ==
    \E filename \in FileNames :
       /\ files' = save_conversation(files, filename, conversation_history)
       /\ last' = Last("save_conversation", <<filename>>, <<>>, NoCall)
       /\ UNCHANGED <<conversation_history, stream>>
       /\ UNCHANGED mcpvars
       /\ UNCHANGED racevars

LoadConversation ==
    \E filename \in FileNames :
       LET r == load_conversation(files, filename, conversation_history)
       IN  /\ conversation_history' = r.history
           /\ last' = Last("load_conversation", <<filename>>, <<>>,
                           [outcome |-> r.outcome,
                            value |-> IF r.outcome = "raise" THEN "FileNotFoundError"
                                      ELSE "None",
                            sent |-> <<>>, read |-> <<>>])
           /\ UNCHANGED <<stream, files>>
           /\ UNCHANGED mcpvars
           /\ UNCHANGED racevars

DisableMcp ==
    /\ SetMgr(stop_all_servers(Mgr))
    /\ mcp_enabled' = FALSE
    /\ last' = Last("disable_mcp", <<>>, <<>>, NoCall)
    /\ UNCHANGED servers
    /\ UNCHANGED chatvars
    /\ UNCHANGED racevars

\* the environment: a child process exits (on its own or after SIGTERM)
ChildExit ==
    \E p \in 1..Len(procs) :
       /\ procs[p].state # "dead"
       /\ procs' = [procs EXCEPT ![p].state = "dead"]
       /\ UNCHANGED <<servers, active_connections, available_tools, mcp_enabled, last>>
       /\ UNCHANGED chatvars
       /\ UNCHANGED racevars

(* --- start_server and stop_server, statement by statement, per thread --- *)
SetThread(t, rec) == threads' = [threads EXCEPT ![t] = rec]

Return(t) == SetThread(t, IdleThread)

\* a request thread enters start_server(name); the name is registered
BeginStart(t) ==
    \E name \in RaceNames :
       /\ threads[t].op = "idle"
       /\ name \in DOMAIN servers
       /\ SetThread(t, [IdleThread EXCEPT !.op = "start", !.pc = "popen", !.name = name])
       /\ UNCHANGED <<mcpvars, last, chatvars, pipes>>

\* process = subprocess.Popen(cmd, ...)
ThreadPopen(t) ==
    /\ threads[t].pc = "popen"
    /\ Len(procs) < MaxSpawn
    /\ procs' = Append(procs, [name |-> threads[t].name, state |-> "alive"])
    /\ pipes' = Append(pipes, <<>>)
    /\ SetThread(t, [threads[t] EXCEPT !.pc = "record", !.p = Len(procs) + 1])
    /\ UNCHANGED <<servers, active_connections, available_tools, mcp_enabled, last, chatvars>>

\* self.active_connections[server_name] = process
ThreadRecord(t) ==
    /\ threads[t].pc = "record"
    /\ active_connections' = DictSet(active_connections, threads[t].name, threads[t].p)
    /\ SetThread(t, [threads[t] EXCEPT !.pc = "init_write"])
    /\ UNCHANGED <<servers, available_tools, procs, mcp_enabled, last, chatvars, pipes>>

\* process = self.active_connections[server_name]; process.stdin.write(...)
\* in _initialize_server ("initialize") and in _get_tools ("tools/list"): a
\* KeyError or a BrokenPipeError is caught there and start_server returns
ThreadWrite(t) ==
    /\ threads[t].pc \in {"init_write", "list_write"}
    /\ LET name == threads[t].name
           method == IF threads[t].pc = "init_write" THEN "initialize" ELSE "tools/list"
       IN  IF ~DictHas(active_connections, name)
              \/ procs[DictGet(active_connections, name)].state = "dead"
           THEN Return(t) /\ UNCHANGED pipes
           ELSE LET h == DictGet(active_connections, name)
                IN  /\ pipes' = [pipes EXCEPT ![h] = Append(@, [tid |-> t, method |-> method])]
                    /\ SetThread(t, [threads[t] EXCEPT
                           !.pc = IF method = "initialize" THEN "init_read" ELSE "list_read",
                           !.h = h])
    /\ UNCHANGED <<mcpvars, last, chatvars>>

\* response = process.stdout.readline(): the child answers its requests in
\* the order it received them, so the line is the reply to the oldest
\* request not yet answered; at end of file the line is empty
ThreadRead(t) ==
    /\ threads[t].pc \in {"init_read", "list_read"}
    /\ LET h == threads[t].h
           name == threads[t].name
       IN  \/ /\ procs[h].state = "dead"
              /\ Return(t)
              /\ UNCHANGED <<pipes, available_tools>>
           \/ /\ procs[h].state = "alive"
              /\ pipes[h] # <<>>
              /\ pipes' = [pipes EXCEPT ![h] = Tail(@)]
              /\ IF threads[t].pc = "init_read"
                 THEN /\ SetThread(t, [threads[t] EXCEPT !.pc = "list_write",
                                                         !.got = Head(pipes[h])])
                      /\ UNCHANGED available_tools
                 ELSE /\ SetThread(t, [threads[t] EXCEPT !.pc = "return",
                                                         !.got = Head(pipes[h])])
                      \* only the reply to a tools/list request has result.tools
                      /\ available_tools' =
                            IF Head(pipes[h]).method = "tools/list"
                            THEN DictSet(available_tools, name, ToolsOfProcess(h))
                            ELSE available_tools
    /\ UNCHANGED <<servers, active_connections, procs, mcp_enabled, last, chatvars>>

\* return True
ThreadReturn(t) ==
    /\ threads[t].pc = "return"
    /\ Return(t)
    /\ UNCHANGED <<mcpvars, last, chatvars, pipes>>

\* a request thread enters stop_server(name): the membership test and
\* process = self.active_connections[server_name]
BeginStop(t) ==
    \E name \in RaceNames :
       /\ threads[t].op = "idle"
       /\ DictHas(active_connections, name)
       /\ SetThread(t, [IdleThread EXCEPT !.op = "stop", !.pc = "terminate", !.name = name,
                                           !.h = DictGet(active_connections, name)])
       /\ UNCHANGED <<mcpvars, last, chatvars, pipes>>

\* process.terminate(); del self.active_connections[server_name]
ThreadTerminate(t) ==
    /\ threads[t].pc = "terminate"
    /\ procs' = terminate(procs, threads[t].h)
    /\ active_connections' = DictDel(active_connections, threads[t].name)
    /\ Return(t)
    /\ UNCHANGED <<servers, available_tools, mcp_enabled, last, chatvars, pipes>>

\* the command registered with add_server is a program that ignores SIGTERM;
\* the default servers exit when they receive it
IgnoresSigterm(p) == procs[p].name \in AddNames

\* a child that honours SIGTERM exits after stop_server signalled it
SignalledExit(p) ==
    /\ p \in 1..Len(procs)
    /\ procs[p].state = "terminating"
    /\ ~IgnoresSigterm(p)
    /\ procs' = [procs EXCEPT ![p].state = "dead"]
    /\ UNCHANGED <<servers, active_connections, available_tools, mcp_enabled, last>>
    /\ UNCHANGED chatvars
    /\ UNCHANGED racevars

\* MCPManager used on its own
Next ==
    \/ AddServer
    \/ StartServer
    \/ StopServer
    \/ StopAllServers
    \/ CallTool
    \/ ChildExit

Spec == Init /\ [][Next]_vars

\* the tool subsystem driven through LMStudioMCPChatbot
NextSession ==
    \/ AddServer
    \/ EnableMcp
    \/ DisableMcp
    \/ ChildExit

SpecSession == Init /\ [][NextSession]_vars

\* the manager and its children over time: a signalled child that honours
\* SIGTERM does exit; nothing in the manager waits for a child or kills it
NextLive == AddServer \/ StartServer \/ StopServer \/ StopAllServers \/ ChildExit

SpecLive ==
    Init /\ [][NextLive]_vars /\ \A p \in 1..MaxSpawn : WF_vars(SignalledExit(p))

\* the steps a thread takes once it is inside start_server or stop_server
ThreadStep ==
    \/ \E t \in Threads : ThreadPopen(t)
    \/ \E t \in Threads : ThreadRecord(t)
    \/ \E t \in Threads : ThreadWrite(t)
    \/ \E t \in Threads : ThreadRead(t)
    \/ \E t \in Threads : ThreadReturn(t)
    \/ \E t \in Threads : ThreadTerminate(t)

\* one client that enables (thread 1) and one that disables (thread 2): the
\* start_server calls follow one another, the stop_server calls follow one
\* another, and a start can overlap a stop
NextRace == BeginStart(1) \/ BeginStop(2) \/ ThreadStep \/ ChildExit

SpecRace == Init /\ [][NextRace]_vars

\* start_server and stop_server called from any request thread
NextThreads ==
    \/ \E t \in Threads : BeginStart(t)
    \/ \E t \in Threads : ThreadPopen(t)
    \/ \E t \in Threads : ThreadRecord(t)
    \/ \E t \in Threads : ThreadWrite(t)
    \/ \E t \in Threads : ThreadRead(t)
    \/ \E t \in Threads : ThreadReturn(t)
    \/ \E t \in Threads : BeginStop(t)
    \/ \E t \in Threads : ThreadTerminate(t)
    \/ ChildExit

SpecThreads == Init /\ [][NextThreads]_vars

\* the manager with a terminate() that can raise
NextFault == AddServer \/ StartServer \/ StopAllServersExc \/ ChildExit

SpecFault == Init /\ [][NextFault]_vars

\* the conversation of the chatbot
NextChat == Chat \/ StreamChat \/ StreamNext \/ StreamClose \/ ClearConversation

SpecChat == Init /\ [][NextChat]_vars

\* the command-line session: the system prompt, enabling the tools, chatting
NextPrompt == AddSystemPrompt \/ EnableMcp \/ Chat \/ ClearConversation

SpecPrompt == Init /\ [][NextPrompt]_vars

\* the conversation with its persistence
NextStore == Chat \/ ClearConversation \/ SaveConversation \/ LoadConversation

SpecStore == Init /\ [][NextStore]_vars

(* ------------------------------- claims -------------------------------- *)
\* the result of the start_server call that last, when last.op = "start_server"
Started == last.results[1]

\* C1: at most one live child process exists per server name and none is
\* leaked: every child that is alive and was never sent a terminate signal is
\* the process tracked under its name in active_connections.
C1_NoLeakedProcess ==
    \A p \in 1..Len(procs) :
       procs[p].state = "alive" =>
          /\ DictHas(active_connections, procs[p].name)
          /\ DictGet(active_connections, procs[p].name) = p

\* C2: get_available_tools_list offers no tool whose owning server has no
\* live tracked process.
C2_NoStaleTools ==
    LET tools == get_available_tools_list(available_tools)
    IN  \A i \in 1..Len(tools) :
           /\ DictHas(active_connections, tools[i].server)
           /\ IsAlive(procs, DictGet(active_connections, tools[i].server))

\* C3: after a start_server(name) that spawned a process, get_server_status
\* reports name as "running" if and only if that process is alive when the
\* status is read.
C3_StartThenStatus ==
    (last.op = "start_server" /\ Started.pid # NoPid) =>
       (get_server_status(Mgr)[Started.name] = "running"
           <=> IsAlive(procs, Started.pid))

C3_Witness ==
    /\ last.op = "start_server"
    /\ Started.pid # NoPid
    /\ ~IsAlive(procs, Started.pid)
    /\ get_server_status(Mgr)[Started.name] = "stopped"

\* C4: after stop_server(name), get_server_status never reports name as
\* "running"; stop_server on a name with no tracked process changes nothing.
C4_StopThenStatus ==
    /\ [](last.op = "stop_server" => StatusOf(Mgr, last.names[1]) # "running")
    /\ [][\A name \in InputNames :
            (~DictHas(active_connections, name) /\ StopServerCall(name)) =>
               UNCHANGED <<servers, active_connections, available_tools,
                           procs, mcp_enabled>>]_vars

C4_Witness ==
    /\ last.op = "stop_server"
    /\ \E p \in 1..Len(procs) :
          /\ procs[p].name = last.names[1]
          /\ procs[p].state = "terminating"
    /\ StatusOf(Mgr, last.names[1]) = "not_started"

\* C5: start_server on a name that is not registered returns False, spawns
\* no process and leaves active_connections and available_tools unchanged.
C5_UnknownServer ==
    [][\A name \in InputNames, out \in Outcomes :
         (name \notin DOMAIN servers /\ StartServerCall(name, out)) =>
            /\ last'.results[1].ret = FALSE
            /\ last'.results[1].pid = NoPid
            /\ UNCHANGED <<active_connections, available_tools, procs>>]_vars

C5_Witness ==
    /\ last.op = "start_server"
    /\ Started.name \notin DOMAIN servers
    /\ Started.ret = FALSE
    /\ active_connections # <<>>

\* the names enable_mcp launched, when last.op = "enable_mcp"
LaunchedNames ==
    {last.results[i].name : i \in {j \in 1..Len(last.results) : last.results[j].pid # NoPid}}

\* C6: after enable_mcp(names) where some servers launch and the others have
\* an invalid command: mcp_enabled is true, every attempt was made, a launched
\* server (whose process is still alive) is reported running, a server whose
\* launch failed is reported not_started or stopped, and the catalog holds
\* only tools of servers that launched (or are running).
C6_PartialEnable ==
    (/\ last.op = "enable_mcp"
     /\ LaunchedNames # {}
     /\ \E i \in 1..Len(last.results) : last.results[i].pid = NoPid
     /\ \A i \in 1..Len(last.results) :
           \/ last.results[i].pid # NoPid
           \/ (last.names[i] \in DOMAIN servers /\ servers[last.names[i]] = "invalid"))
    => LET status == get_mcp_status.servers
           tools == get_mcp_status.tools
       IN  /\ get_mcp_status.enabled
           /\ Len(last.results) = Len(last.names)
           /\ \A i \in 1..Len(last.results) :
                 IF last.results[i].pid # NoPid
                 THEN IsAlive(procs, last.results[i].pid)
                         => status[last.names[i]] = "running"
                 ELSE status[last.names[i]] \in {"not_started", "stopped"}
           /\ \A i \in 1..Len(tools) :
                 \/ tools[i].server \in LaunchedNames
                 \/ status[tools[i].server] = "running"

\* C7: call_tool on a server that get_server_status does not report as
\* "running" fails with "not connected" and writes no request to any pipe.
C7_NotRunningNotConnected ==
    (last.op = "call_tool" /\ last.status # "running") =>
       /\ last.call.value = "not_connected"
       /\ last.call.sent = <<>>

\* C8: when the response line call_tool reads is missing or empty, call_tool
\* reports a ProtocolError to its caller, after exactly one read.
C8_EmptyResponseIsError ==
    (last.op = "call_tool" /\ last.call.read = <<"none">>) =>
       /\ last.call.value = "ProtocolError"
       /\ Len(last.call.read) = 1

\* C9: every failure of a tool invocation is returned to the caller; call_tool
\* never raises.
C9_CallToolNeverRaises ==
    last.op = "call_tool" => last.call.outcome = "return"

\* C10: after a start_server(S) whose child gave no reply or a malformed reply
\* to initialize or to tools/list, the catalog offers no tools for S.
C10_FailedHandshakeNoTools ==
    (/\ last.op = "start_server"
     /\ Started.pid # NoPid
     /\ \/ Started.init \in {"none", "malformed"}
        \/ Started.list \in {"none", "malformed"})
    => LET tools == get_available_tools_list(available_tools)
       IN  \A i \in 1..Len(tools) : tools[i].server # Started.name

(* ------------------------------ shutdown ------------------------------- *)
\* C15: after stop_all_servers no process is tracked and no server is
\* reported running, and a second stop_all_servers right after it leaves
\* the manager exactly as the first did (it finds nothing to stop, so it has
\* nothing that can fail).
C15_StopAllIdempotent ==
    [][StopAllServers =>
          LET once == [ac |-> active_connections', at |-> available_tools',
                       procs |-> procs']
          IN  /\ once.ac = <<>>
              /\ \A name \in DOMAIN servers : get_server_status(once)[name] # "running"
              /\ stop_all_servers(once) = once]_vars

C15_Witness ==
    /\ last.op = "stop_all_servers"
    /\ active_connections = <<>>
    /\ Len(procs) = 2
    /\ procs[1].name # procs[2].name
    /\ \A p \in 1..2 : procs[p].state = "terminating"

\* C16: when terminate raises for some tracked process during
\* stop_all_servers, every other tracked process is still signalled and
\* removed from active_connections.
C16_StopAllBestEffort ==
    [][\A bad \in SUBSET (1..Len(procs)) :
          ((\E i \in 1..Len(active_connections) : active_connections[i].val \in bad)
             /\ StopAllServersExcCall(bad)) =>
             \A i \in 1..Len(active_connections) :
                active_connections[i].val \notin bad =>
                   /\ ~DictHas(active_connections', active_connections[i].key)
                   /\ procs'[active_connections[i].val].state # "alive"]_vars

ChildState(p) == IF p \in 1..Len(procs) THEN procs[p].state ELSE "unborn"

\* C17: every child signalled by stop_server or stop_all_servers is
\* eventually not alive, also when it ignores SIGTERM.
C17_StoppedChildEventuallyDead ==
    \A p \in 1..MaxSpawn :
       (ChildState(p) = "terminating") ~> (ChildState(p) = "dead")

(* ------------------------------ concurrency ---------------------------- *)
Quiescent == \A t \in Threads : threads[t].op = "idle"

\* the process most recently spawned for name (NoPid when there is none)
LatestProcess(name) ==
    LET ps == {p \in 1..Len(procs) : procs[p].name = name}
    IN  IF ps = {} THEN NoPid ELSE CHOOSE p \in ps : \A q \in ps : q <= p

\* C18: a start_server and a stop_server on one name that overlap have the
\* effect of some serial order. With the starts issued one after another, in
\* every serial order the process of the last start is either the tracked
\* one or has been signalled by a later stop, so once the calls have
\* returned it is not alive and untracked.
C18_SerialStartStop ==
    Quiescent =>
       \A name \in RaceNames :
          LET p == LatestProcess(name)
          IN  (p # NoPid /\ procs[p].state = "alive") =>
                 /\ DictHas(active_connections, name)
                 /\ DictGet(active_connections, name) = p

\* C19: a child never has more than one request awaiting its reply, and
\* every readline returns the reply to the request its own thread wrote.
C19_OneOutstandingRequest ==
    /\ \A p \in 1..Len(pipes) : Len(pipes[p]) <= 1
    /\ \A t \in Threads : threads[t].got # NoReq => threads[t].got.tid = t

\* C22: disable_mcp stops every server whatever the session's state: after
\* it mcp_enabled is false, no process is tracked and no server is reported
\* as running.
C22_DisableStopsAll ==
    [][DisableMcp =>
          /\ mcp_enabled' = FALSE
          /\ active_connections' = <<>>
          /\ \A i \in 1..Len(active_connections) :
                procs'[active_connections[i].val].state # "alive"
          /\ \A name \in DOMAIN servers :
                get_server_status([ac |-> active_connections', at |-> available_tools',
                                   procs |-> procs'])[name] = "not_started"]_vars

C22_Witness ==
    /\ last.op = "disable_mcp"
    /\ ~mcp_enabled
    /\ active_connections = <<>>
    /\ Len(procs) = 2
    /\ procs[1].state = "dead"
    /\ procs[2].state = "terminating"

(* ------------------------------ tool catalog --------------------------- *)
ToolsOf(at, server) ==
    SelectSeq(get_available_tools_list(at), LAMBDA t : t.server = server)

Tagged(tools, server) ==
    [i \in 1..Len(tools) |-> [name |-> tools[i].name, server |-> server]]

\* C14: a start whose tools/list reply is well formed leaves, in
\* get_available_tools_list, exactly the tools of that reply for its server,
\* in order and tagged with the server, and the tools of every other server
\* as they were; no other step changes the catalog.
C14_CatalogReplacedPerServer ==
    /\ [][\A name \in InputNames, out \in Outcomes :
             (last'.op = "start_server" /\ out.list = "ok"
                /\ name \in DOMAIN servers /\ servers[name] = "valid"
                /\ StartServerCall(name, out)) =>
                /\ ToolsOf(available_tools', name) = Tagged(out.tools, name)
                /\ \A other \in DOMAIN servers \ {name} :
                      ToolsOf(available_tools', other) = ToolsOf(available_tools, other)
                /\ Len(get_available_tools_list(available_tools')) =
                      Len(get_available_tools_list(available_tools))
                        - Len(ToolsOf(available_tools, name)) + Len(out.tools)]_vars
    /\ [][available_tools' # available_tools =>
             \E name \in InputNames, out \in Outcomes :
                out.list = "ok" /\ StartServerCall(name, out)]_vars

C14_Witness ==
    /\ last.op = "start_server"
    /\ Started.name = "custom"
    /\ Started.list = "ok"
    /\ Len(ToolsOf(available_tools, "custom")) = 1
    /\ Len(ToolsOf(available_tools, "filesystem")) = 2
    /\ Len(get_available_tools_list(available_tools)) = 3

(* ------------------------------ spawn failure -------------------------- *)
\* C20: when Popen raises for a registered server, start_server returns
\* False, records no process handle (the handles tracked before stay as they
\* were) and leaves the tool catalog unchanged.
C20_SpawnFailure ==
    [][\A name \in InputNames, out \in Outcomes :
          (name \in DOMAIN servers /\ PopenRaises(name, out)
             /\ StartServerCall(name, out)) =>
             /\ last'.results[1].ret = FALSE
             /\ last'.results[1].pid = NoPid
             /\ UNCHANGED <<active_connections, available_tools, procs>>]_vars

C20_Witness ==
    /\ last.op = "start_server"
    /\ Started.name \in DOMAIN servers
    /\ Started.ret = FALSE
    /\ DictHas(active_connections, Started.name)
    /\ Len(ToolsOf(available_tools, Started.name)) = 2

(* ------------------------------ start result --------------------------- *)
\* C25: start_server returns True exactly when the name is registered and
\* Popen succeeds, whatever the handshake does; the process it spawned is
\* then the tracked one, also when initialize or tools/list failed.
C25_StartResult ==
    [][\A name \in InputNames, out \in Outcomes :
          (last'.op = "start_server" /\ last'.names = <<name>>
             /\ StartServerCall(name, out)) =>
             LET res == last'.results[1]
             IN  /\ res.ret = (name \in DOMAIN servers /\ ~PopenRaises(name, out))
                 /\ res.ret => /\ res.pid = Len(procs) + 1
                                /\ DictHas(active_connections', name)
                                /\ DictGet(active_connections', name) = res.pid
                                /\ procs'[res.pid].state = "alive"]_vars

C25_Witness ==
    /\ last.op = "start_server"
    /\ Started.ret = TRUE
    /\ Started.init = "ok"
    /\ Started.list = "broken_pipe"
    /\ DictHas(active_connections, Started.name)
    /\ DictGet(active_connections, Started.name) = Started.pid

\* C26: every key of active_connections and every key of available_tools
\* is a registered server name.
C26_KeysAreRegistered ==
    /\ \A i \in 1..Len(active_connections) : active_connections[i].key \in DOMAIN servers
    /\ \A i \in 1..Len(available_tools) : available_tools[i].key \in DOMAIN servers

C26_Witness ==
    /\ DictHas(active_connections, "custom")
    /\ DictHas(active_connections, "filesystem")
    /\ DictHas(available_tools, "custom")
    /\ last.op = "start_server"

(* ------------------------------ handshake ------------------------------ *)
HandshakeOrder ==
    <<"w:initialize", "r:initialize", "w:tools/list", "r:tools/list", "set">>

IsPrefix(s, t) == Len(s) <= Len(t) /\ \A i \in 1..Len(s) : s[i] = t[i]

Occurs(e, s) == \E i \in 1..Len(s) : s[i] = e

\* C21: a start that spawns a process runs the handshake once and in order:
\* initialize is written first, tools/list is written only after a
\* non-empty, parseable reply to initialize was read, and the catalog entry
\* is replaced only after a tools/list reply was read; a start that spawns
\* nothing changes no catalog entry.
C21_HandshakeOrder ==
    [][\A name \in InputNames, out \in Outcomes :
          (last'.op = "start_server" /\ last'.names = <<name>>
             /\ StartServerCall(name, out)) =>
             LET io == initialize_server_io(out)
                 res == last'.results[1]
             IN  IF res.pid = NoPid
                 THEN available_tools' = available_tools
                 ELSE /\ io # <<>>
                      /\ IsPrefix(io, HandshakeOrder)
                      /\ Occurs("w:tools/list", io) <=> out.init = "ok"
                      /\ Occurs("w:tools/list", io) <=> res.list # "unsent"
                      /\ Occurs("set", io) <=> out.list = "ok"
                      /\ available_tools' # available_tools => Occurs("set", io)]_vars

C21_Witness ==
    /\ last.op = "start_server"
    /\ Started.pid # NoPid
    /\ Started.init = "ok"
    /\ Started.list = "malformed"
    /\ ~DictHas(available_tools, Started.name)

(* ------------------------------ history -------------------------------- *)
\* C23: every operation other than clear_conversation leaves the history
\* it found as a prefix of the history it leaves, and clear_conversation
\* leaves the history empty.
C23_HistoryAppendOnly ==
    [][IF ClearConversation
       THEN conversation_history' = <<>>
       ELSE IsPrefix(conversation_history, conversation_history')]_vars

SystemTurns(history) == SelectSeq(history, LAMBDA t : t.role = "system")

\* every tool has its line in the text of some system turn of the context
ToolsCovered(context, tools) ==
    \A i \in 1..Len(tools) :
       \E k \in 1..Len(SystemTurns(context)) :
          Occurs(tools[i], SystemTurns(context)[k].mcp_tools_info)

\* C24: when MCP is enabled and chat sends a context that holds a system
\* prompt to the model, the system-prompt text has a line for every tool
\* get_available_tools_list() returns at that moment, whether the prompt was
\* added before or after enable_mcp.
C24_PromptListsTools ==
    [][\A message \in Messages, stub \in Stubs :
          (last'.op = "chat" /\ mcp_enabled /\ SystemTurns(conversation_history) # <<>>
             /\ ResolveModel(stub) = "" /\ ChatCall(message, stub)) =>
             ToolsCovered(Append(conversation_history, Turn("user", message)),
                          get_available_tools_list(available_tools))]_vars

(* ------------------------------ conversation --------------------------- *)
ErrorTexts == {"Error: No models available in LM Studio", "Error: create failed"}

\* C11: when no model is available (the listing is empty or fails) or the
\* model call fails, chat returns an error text instead of raising, and the
\* history afterwards is the history before plus exactly the new user turn.
C11_ChatFailureKeepsHistory ==
    [][\A message \in Messages, stub \in Stubs :
          (CompletionError(stub) # "" /\ ChatCall(message, stub)) =>
             /\ last'.call.outcome = "return"
             /\ last'.call.value \in ErrorTexts
             /\ conversation_history' =
                    Append(conversation_history, Turn("user", message))]_vars

C11_Witness ==
    /\ last.op = "chat"
    /\ last.call.value = "Error: No models available in LM Studio"
    /\ conversation_history =
          <<Turn("user", "hi"), Turn("assistant", "ab"), Turn("user", "hi")>>

AssistantTurns(history) == SelectSeq(history, LAMBDA t : t.role = "assistant")

\* C12: a step of the stream_chat generator commits an assistant turn only
\* when it exhausts the fragment sequence without failure, and the turn is
\* the concatenation of the fragments it yielded; every other step of the
\* generator (a fragment, the error text after a failed stream, the
\* consumer abandoning it) commits no assistant turn.
C12_StreamCommitsOnExhaustion ==
    [][(stream' # stream) =>
          IF stream'.pc = "done" /\ ~stream'.exc
          THEN /\ conversation_history' # <<>>
               /\ conversation_history'[Len(conversation_history')] =
                      Turn("assistant", Concat(stream'.yielded))
               /\ Len(AssistantTurns(conversation_history')) =
                      Len(AssistantTurns(conversation_history)) + 1
          ELSE AssistantTurns(conversation_history') =
                  AssistantTurns(conversation_history)]_vars

C12_Witness ==
    /\ stream.pc = "closed"
    /\ stream.yielded = <<"a">>
    /\ stream.stub.chunks = <<"a", "", "b">>
    /\ conversation_history = <<Turn("user", "hi")>>

\* the history is what the generator left at its last yield
Undisturbed ==
    \/ stream.pc = "created"
    \/ conversation_history = Append(stream.h0, Turn("user", stream.message))

\* C13: for a stub whose stream does not fail, when the generator of
\* stream_chat is exhausted the concatenation of its fragments is the text
\* chat returns for the same prior history, message and stub, and the history
\* is the one chat leaves: for a stub that answers, the prior history, the
\* user turn and one assistant turn holding that text.
C13_StreamEqualsChat ==
    [][(stream' # stream /\ stream'.pc = "done" /\ stream.stub.fail_at = 0
          /\ Undisturbed) =>
          LET c == chat(stream'.h0, stream.message, stream.stub)
          IN  /\ Concat(stream'.yielded) = c.ret
              /\ conversation_history' = c.history
              /\ CompletionError(stream.stub) = "" =>
                    conversation_history' =
                       stream'.h0 \o <<Turn("user", stream.message),
                                       Turn("assistant", Concat(stream'.yielded))>>]_vars

C13_Witness ==
    /\ stream.pc = "done"
    /\ stream.yielded = <<"a", "b">>
    /\ stream.h0 = <<Turn("user", "hi"), Turn("assistant", "")>>
    /\ conversation_history =
          <<Turn("user", "hi"), Turn("assistant", ""),
            Turn("user", "hi"), Turn("assistant", "ab")>>

UserTurns(history) == SelectSeq(history, LAMBDA t : t.role = "user")

\* C27: stream_chat is lazy. Creating the generator leaves the history
\* unchanged; the request for the first fragment appends the user turn
\* first, so the turn is there also when no model can be resolved or the
\* model call fails; no later step of the generator adds a user turn.
C27_StreamChatLazy ==
    [][(stream' # stream) =>
          IF stream'.pc = "created"
          THEN conversation_history' = conversation_history
          ELSE IF stream.pc = "created"
          THEN /\ IsPrefix(Append(conversation_history, Turn("user", stream.message)),
                           conversation_history')
               /\ Len(UserTurns(conversation_history')) =
                     Len(UserTurns(conversation_history)) + 1
               /\ stream'.h0 = conversation_history
          ELSE UserTurns(conversation_history') = UserTurns(conversation_history)]_vars

C27_Witness ==
    /\ stream.pc = "yielded"
    /\ stream.exc
    /\ stream.yielded = <<"Error: No models available in LM Studio">>
    /\ stream.h0 = <<>>
    /\ conversation_history = <<Turn("user", "hi")>>

====
